---- MODULE Spec2Model ----
(***************************************************************************)
(* Model of nonneural_tur.py, the non-neural SIGMORPHON baseline: the      *)
(* Levenshtein aligner, the segmenter, the rule extractor, the rule store  *)
(* built by main and the rule applier.                                     *)
(*                                                                         *)
(* Python strings are sequences of one-character strings.  Costs are the   *)
(* program's real costs in tenths (1.0 is 10, 1.1 is 11), so that the      *)
(* arithmetic of the aligner is exact integer arithmetic.  The program     *)
(* adds floats; rounding can only change which of two alignments of equal  *)
(* cost min() meets first, and does not for the strings modelled here.     *)
(***************************************************************************)
EXTENDS Integers, Sequences, FiniteSets

\* ------------------------------------------------------------------ bounds
MaxLen == 2      \* longest string handed to the aligner in SpecAlign
MaxLines == 2    \* most training lines of a corpus in Spec

Alphabet == {"a", "b"}
Strings == UNION {[1..n -> Alphabet] : n \in 0..MaxLen}

\* insertion / deletion / substitution costs tried, in tenths
InsCosts == {5, 10, 20}
DelCosts == {10, 20}
SubstCosts == {10, 11, 20}

\* ------------------------------------------------------- string primitives
Min(a, b) == IF a <= b THEN a ELSE b
Max(a, b) == IF a >= b THEN a ELSE b

\* F applied to the value of v, v being evaluated once
WithValue(v, F(_)) == CHOOSE r \in {F(x) : x \in {v}} : TRUE

\* n * '_'
gaps(n) == [i \in 1..n |-> "_"]

\* x[a:b] for 0 <= a, 0 <= b <= len(x)
slice(x, a, b) == SubSeq(x, a + 1, b)

\* x[::-1]
reverse(x) == [i \in 1..Len(x) |-> x[Len(x) + 1 - i]]

\* pat in x
contains(x, pat) ==
    \E i \in 0..(Len(x) - Len(pat)) : SubSeq(x, i + 1, i + Len(pat)) = pat

\* x.replace(old, new): every non-overlapping occurrence, left to right; an
\* empty old matches before every character and at the end.
RECURSIVE replace_empty(_, _)
replace_empty(x, new) ==
    IF Len(x) = 0 THEN new
    ELSE new \o <<Head(x)>> \o replace_empty(Tail(x), new)

RECURSIVE replace(_, _, _)
replace(x, old, new) ==
    IF Len(old) = 0 THEN replace_empty(x, new)
    ELSE IF Len(x) < Len(old) THEN x
    ELSE IF SubSeq(x, 1, Len(old)) = old
         THEN new \o replace(SubSeq(x, Len(old) + 1, Len(x)), old, new)
         ELSE <<Head(x)>> \o replace(Tail(x), old, new)

\* len(s) - len(s.lstrip(symbol))
RECURSIVE numleadingsyms(_, _)
numleadingsyms(s, symbol) ==
    IF Len(s) > 0 /\ Head(s) = symbol
    THEN 1 + numleadingsyms(Tail(s), symbol)
    ELSE 0

\* len(s) - len(s.rstrip(symbol))
numtrailingsyms(s, symbol) == numleadingsyms(reverse(s), symbol)

\* ------------------------------------------------------------- levenshtein
\* cost + len(trem): the exhausted-side base cases charge one unit (1.0) a
\* character, whatever inscost and delcost are.
UnitCost == 10

\* min(..., key = lambda x: x[4]) over three candidates: the first minimum
min3(c1, c2, c3) ==
    IF c1.cost <= c2.cost /\ c1.cost <= c3.cost THEN c1
    ELSE IF c2.cost <= c3.cost THEN c2
    ELSE c3

RECURSIVE lrec(_, _, _, _, _, _)
RECURSIVE memolrec(_, _, _, _, _, _)

lrec(spast, tpast, srem, trem, cost, k) ==
    IF Len(srem) = 0
    THEN [s |-> spast \o gaps(Len(trem)), t |-> tpast \o trem,
          cost |-> cost + Len(trem) * UnitCost]
    ELSE IF Len(trem) = 0
    THEN [s |-> spast \o srem, t |-> tpast \o gaps(Len(srem)),
          cost |-> cost + Len(srem) * UnitCost]
    ELSE LET addcost == IF srem[1] # trem[1] THEN k.substcost ELSE 0
         IN WithValue(
                <<memolrec(spast \o <<srem[1]>>, tpast \o <<trem[1]>>,
                           Tail(srem), Tail(trem), cost + addcost, k),
                  memolrec(spast \o <<"_">>, tpast \o <<trem[1]>>,
                           srem, Tail(trem), cost + k.inscost, k),
                  memolrec(spast \o <<srem[1]>>, tpast \o <<"_">>,
                           Tail(srem), trem, cost + k.delcost, k)>>,
                LAMBDA c : min3(c[1], c[2], c[3]))

\* A memoizer that keeps the caller's accumulated prefix inside the cached
\* fragment (res[0] instead of res[0][len(sp):]).
memolrec_keepprefix(sp, tp, sr, tr, cost, k) ==
    WithValue(lrec(sp, tp, sr, tr, cost, k),
              LAMBDA res : [s |-> sp \o res.s, t |-> tp \o res.t,
                            cost |-> cost + (res.cost - cost)])

\* The cache entry of (sr, tr) is the fragment and the cost the recursion adds
\* to the caller's prefix and cost; with exact costs it is the same whichever
\* caller fills it, so the cache is modelled by recomputing the entry.
memolrec(sp, tp, sr, tr, cost, k) ==
    LET entry(res) == [s |-> SubSeq(res.s, Len(sp) + 1, Len(res.s)),
                       t |-> SubSeq(res.t, Len(tp) + 1, Len(res.t)),
                       cost |-> res.cost - cost]
    IN WithValue(WithValue(lrec(sp, tp, sr, tr, cost, k), entry),
                 LAMBDA cached : [s |-> sp \o cached.s, t |-> tp \o cached.t,
                                  cost |-> cost + cached.cost])

levenshtein(s, t, inscost, delcost, substcost) ==
    LET answer == memolrec(<<>>, <<>>, s, t, 0,
                           [inscost |-> inscost, delcost |-> delcost,
                            substcost |-> substcost])
    IN <<answer.s, answer.t, answer.cost>>

\* ---------------------------------------------------------------- alignprs
DefaultCost == 10       \* inscost = 1.0, delcost = 1.0
AlignSubstCost == 11    \* substcost = 1.1

alignprs_split(al) ==
    LET alemma == al[1]
        aform == al[2]
        lspace == Max(numleadingsyms(alemma, "_"), numleadingsyms(aform, "_"))
        tspace == Max(numleadingsyms(reverse(alemma), "_"),
                      numleadingsyms(reverse(aform), "_"))
    IN <<slice(alemma, 0, lspace),
         slice(alemma, lspace, Len(alemma) - tspace),
         slice(alemma, Len(alemma) - tspace, Len(alemma)),
         slice(aform, 0, lspace),
         slice(aform, lspace, Len(alemma) - tspace),
         slice(aform, Len(alemma) - tspace, Len(aform))>>

alignprs(lemma, form) ==
    WithValue(levenshtein(lemma, form, DefaultCost, DefaultCost, AlignSubstCost),
              alignprs_split)

\* ------------------------------------------------- prefix_suffix_rules_get
generate_rules(ins, outs) ==
    LET rules == {<<slice(ins, i, Len(ins)), slice(outs, i, Len(outs))>> :
                     i \in 0..(Min(Len(ins), Len(outs)) - 1)}
    IN {<<replace(x[1], <<"_">>, <<>>), replace(x[2], <<"_">>, <<>>)>> : x \in rules}

rules_of_parts(p) ==
    LET lp == p[1]
        lr == p[2]
        ls == p[3]
        fp == p[4]
        fr == p[5]
        fs == p[6]
        srules == generate_rules(lr \o ls \o <<">">>, fr \o fs \o <<">">>)
        prules == IF Len(lp) >= 0 \/ Len(fp) >= 0
                  THEN generate_rules(<<"<">> \o lp, <<"<">> \o fp)
                  ELSE {}
    IN <<prules, srules>>

prefix_suffix_rules_get(lemma, form) ==
    WithValue(alignprs(lemma, form), rules_of_parts)

\* ------------------------------------------------------------------ halign
hamming(s, t) ==
    Cardinality({i \in 1..Min(Len(s), Len(t)) : s[i] # t[i]})

\* ''.join(i for i,o in zipped if i != '_' or o != '_'), both sides at once
RECURSIVE dropgapcolumns(_, _)
dropgapcolumns(bu, bl) ==
    IF Len(bu) = 0 \/ Len(bl) = 0 THEN <<<<>>, <<>>>>
    ELSE LET rest == dropgapcolumns(Tail(bu), Tail(bl))
         IN IF Head(bu) # "_" \/ Head(bl) # "_"
            THEN <<<<Head(bu)>> \o rest[1], <<Head(bl)>> \o rest[2]>>
            ELSE rest

halign(s, t) ==
    LET slen == Len(s)
        tlen == Len(t)
        \* the candidates in the order the two loops try them
        cand == [j \in 1..(tlen + slen + 2) |->
                    IF j <= tlen + 1
                    THEN <<gaps(j - 1) \o s \o gaps(tlen - (j - 1)), gaps(slen) \o t>>
                    ELSE LET lpad == j - (tlen + 2)
                         IN <<gaps(tlen) \o s, gaps(slen - lpad) \o t \o gaps(lpad)>>]
        score(j) == hamming(cand[j][1], cand[j][2])
        \* score < minscore: the first candidate of the least score is kept
        best == CHOOSE j \in DOMAIN cand :
                    /\ \A i \in DOMAIN cand : score(j) <= score(i)
                    /\ \A i \in 1..(j - 1) : score(i) > score(j)
    IN dropgapcolumns(cand[best][1], cand[best][2])

\* -------------------------------------------------------------- rule store
MSDs == {"V;PST", "N;PL"}

\* The lemmas and forms of the training and dev lines.  A line is stripped
\* and split at tabs, so neither field is empty.  The pairs cover a suffix
\* and a prefix added or dropped, a substitution and a change at both ends.
Lemmas == {<<"a">>, <<"a", "b">>}
Forms == {<<"a">>, <<"b">>, <<"a", "b">>, <<"b", "a">>}

EmptyStore == [m \in {} |-> <<>>]

\* A store update that starts the MSD's table afresh for every line with
\* rules (the guard "msd not in storage" dropped).
store_add_reset(storage, msd, rules) ==
    IF Cardinality(rules) > 0
    THEN [m \in DOMAIN storage \cup {msd} |->
             IF m = msd THEN [r \in rules |-> 1] ELSE storage[m]]
    ELSE storage

\* lines 284-293 for one of the two (rules, storage) pairs
store_add(storage, msd, rules) ==
    LET created == IF msd \notin DOMAIN storage /\ Cardinality(rules) > 0
                   THEN [m \in DOMAIN storage \cup {msd} |->
                            IF m \in DOMAIN storage THEN storage[m] ELSE <<>>]
                   ELSE storage
    IN IF rules = {} THEN created
       ELSE LET old == created[msd]
            IN [created EXCEPT ![msd] =
                   [r \in DOMAIN old \cup rules |->
                       IF r \in rules
                       THEN (IF r \in DOMAIN old THEN old[r] + 1 ELSE 1)
                       ELSE old[r]]]

\* ---------------------------------------------------------- apply_best_rule
NoRule == <<>>

\* [(x[0],x[1],y) for x,y in rules.items() if x[0] in base]
applicable(rules, base) ==
    {<<x[1], x[2], rules[x]>> : x \in {y \in DOMAIN rules : contains(base, y[1])}}

\* (a1, a2, a3) <= (b1, b2, b3) as Python compares tuples
tuple_le(a, b) ==
    \/ a[1] < b[1]
    \/ a[1] = b[1] /\ a[2] < b[2]
    \/ a[1] = b[1] /\ a[2] = b[2] /\ a[3] <= b[3]

suffix_key(x) == <<Len(x[1]), x[3], Len(x[2])>>

\* A suffix choice by frequency alone, as the prefix step chooses.
max_suffix_byfreq(applicablerules) ==
    {x \in applicablerules : \A y \in applicablerules : y[3] <= x[3]}

\* max(applicablerules, key = lambda x: (len(x[0]), x[2], len(x[1]))): the
\* first rule of the greatest key in the list's order, which is the order the
\* dict was filled in, i.e. the iteration order of a set of string pairs.  Any
\* rule of the greatest key can come first.
max_suffix(applicablerules) ==
    {x \in applicablerules :
        \A y \in applicablerules : tuple_le(suffix_key(y), suffix_key(x))}

\* max(applicablerules, key = lambda x: (x[2]))
max_prefix(applicablerules) ==
    {x \in applicablerules : \A y \in applicablerules : y[3] <= x[3]}

\* A run of apply_best_rule records the base before the suffix step (base0),
\* the suffix rule applied, the base after it (base1), the prefix rule
\* applied, the base after it (base2) and the returned string.
bail_out(lemma, msd, ret) ==
    [lemma |-> lemma, msd |-> msd, bailed |-> TRUE,
     base0 |-> <<"<">> \o lemma \o <<">">>, srule |-> NoRule,
     base1 |-> <<"<">> \o lemma \o <<">">>, prule |-> NoRule,
     base2 |-> <<"<">> \o lemma \o <<">">>, ret |-> ret]

\* lines 186-200: the suffix step, the prefix step and the stripping of the
\* boundary markers; one run for each way the ties of the two max() calls
\* can fall
apply_steps(lemma, msd, allprules, allsrules) ==
    LET base == <<"<">> \o lemma \o <<">">>
        sapp == IF msd \in DOMAIN allsrules
                THEN applicable(allsrules[msd], base) ELSE {}
        sbest == IF sapp # {} THEN max_suffix(sapp) ELSE {NoRule}
    IN UNION {
         LET base1 == IF sr = NoRule THEN base
                      ELSE replace(base, sr[1], sr[2])
             papp == IF msd \in DOMAIN allprules
                     THEN applicable(allprules[msd], base1) ELSE {}
             pbest == IF papp # {} THEN max_prefix(papp) ELSE {NoRule}
         IN {LET base2 == IF pr = NoRule THEN base1
                          ELSE replace(base1, pr[1], pr[2])
             IN [lemma |-> lemma, msd |-> msd, bailed |-> FALSE,
                 base0 |-> base, srule |-> sr, base1 |-> base1,
                 prule |-> pr, base2 |-> base2,
                 ret |-> replace(replace(base2, <<"<">>, <<>>),
                                 <<">">>, <<>>)] : pr \in pbest}
         : sr \in sbest}

\* A bail-out that returns the wrapped base instead of the lemma.
apply_best_rule_retbase(lemma, msd, allprules, allsrules) ==
    IF msd \notin DOMAIN allprules /\ msd \notin DOMAIN allsrules
    THEN {bail_out(lemma, msd, <<"<">> \o lemma \o <<">">>)}
    ELSE apply_steps(lemma, msd, allprules, allsrules)

\* The set of runs of apply_best_rule(lemma, msd, allprules, allsrules).
apply_best_rule(lemma, msd, allprules, allsrules) ==
    IF msd \notin DOMAIN allprules /\ msd \notin DOMAIN allsrules
    THEN {bail_out(lemma, msd, lemma)}
    ELSE apply_steps(lemma, msd, allprules, allsrules)

\* -------------------------------------------------------------------- state
VARIABLES
    pc,         \* where the program is
    arg,        \* SpecAlign: the strings and costs a core function is called with
    ret,        \* SpecAlign: what the called function returned
    lines,      \* Spec: the training lines, <<lemma, msd, form>> each
    prefbias,   \* Spec: main's prefbias
    suffbias,   \* Spec: main's suffbias
    done,       \* Spec: how many training lines the second loop has processed
    allprules,  \* Spec: main's allprules, msd -> rule -> count
    allsrules,  \* Spec: main's allsrules
    app,        \* Spec: the run of apply_best_rule for the last dev line
    outform     \* Spec: the outform of the last dev line

vars == <<pc, arg, ret, lines, prefbias, suffbias, done, allprules, allsrules,
          app, outform>>

NoArg == [s |-> <<>>, t |-> <<>>, inscost |-> 0, delcost |-> 0, substcost |-> 0]
NoApp == bail_out(<<>>, "", <<>>)

\* ------------------------------------------------ main: training and dev run
\* for l in lines (271-276): the bias vote of one line
linebias(l) ==
    LET aligned == halign(l[1], l[3])
    IN IF /\ ~contains(aligned[1], <<" ">>) /\ ~contains(aligned[2], <<" ">>)
          /\ ~contains(aligned[1], <<"-">>) /\ ~contains(aligned[2], <<"-">>)
       THEN <<numleadingsyms(aligned[1], "_") + numleadingsyms(aligned[2], "_"),
              numtrailingsyms(aligned[1], "_") + numtrailingsyms(aligned[2], "_")>>
       ELSE <<0, 0>>

RECURSIVE sumbias(_, _)
sumbias(ls, i) ==
    IF Len(ls) = 0 THEN 0 ELSE linebias(Head(ls))[i] + sumbias(Tail(ls), i)

\* lemma[::-1] when prefbias > suffbias
oriented(w, pb, sb) == IF pb > sb THEN reverse(w) ELSE w

Init ==
    /\ pc = "bias"
    /\ lines \in UNION {[1..n -> Lemmas \X MSDs \X Forms] : n \in 0..MaxLines}
    /\ prefbias = 0
    /\ suffbias = 0
    /\ done = 0
    /\ allprules = EmptyStore
    /\ allsrules = EmptyStore
    /\ app = NoApp
    /\ outform = <<>>
    /\ arg = NoArg
    /\ ret = <<>>

\* lines 270-276
DetectBias ==
    /\ pc = "bias"
    /\ prefbias' = sumbias(lines, 1)
    /\ suffbias' = sumbias(lines, 2)
    /\ pc' = IF Len(lines) = 0 THEN "eval" ELSE "train"
    /\ UNCHANGED <<arg, ret, lines, done, allprules, allsrules, app, outform>>

\* lines 277-293, one line of the corpus
TrainLine ==
    /\ pc = "train"
    /\ done < Len(lines)
    /\ LET l == lines[done + 1]
           msd == l[2]
           lemma == oriented(l[1], prefbias, suffbias)
           form == oriented(l[3], prefbias, suffbias)
       IN \E got \in {prefix_suffix_rules_get(lemma, form)} :
             /\ allprules' = store_add(allprules, msd, got[1])
             /\ allsrules' = store_add(allsrules, msd, got[2])
    /\ done' = done + 1
    /\ pc' = IF done + 1 = Len(lines) THEN "eval" ELSE "train"
    /\ UNCHANGED <<arg, ret, lines, prefbias, suffbias, app, outform>>

\* lines 305-312, one dev line
EvalLine ==
    /\ pc = "eval"
    /\ \E lemma \in Lemmas, msd \in MSDs :
         \E run \in apply_best_rule(oriented(lemma, prefbias, suffbias), msd,
                                    allprules, allsrules) :
            /\ app' = run
            /\ outform' = oriented(run.ret, prefbias, suffbias)
    /\ UNCHANGED <<pc, arg, ret, lines, prefbias, suffbias, done,
                   allprules, allsrules>>

Next == DetectBias \/ TrainLine \/ EvalLine

Spec == Init /\ [][Next]_vars

\* ------------------------------------------- the core functions, one call
InitAlign ==
    /\ pc = "call"
    /\ arg \in [s : Strings, t : Strings, inscost : InsCosts,
                delcost : DelCosts, substcost : SubstCosts]
    /\ ret = <<>>
    /\ lines = <<>>
    /\ prefbias = 0
    /\ suffbias = 0
    /\ done = 0
    /\ allprules = EmptyStore
    /\ allsrules = EmptyStore
    /\ app = NoApp
    /\ outform = <<>>

CallLevenshtein ==
    /\ pc = "call"
    /\ ret' = levenshtein(arg.s, arg.t, arg.inscost, arg.delcost, arg.substcost)
    /\ pc' = "levenshtein"
    /\ UNCHANGED <<arg, lines, prefbias, suffbias, done, allprules, allsrules,
                   app, outform>>

CallAlignprs ==
    /\ pc = "call"
    /\ ret' = alignprs(arg.s, arg.t)
    /\ pc' = "alignprs"
    /\ UNCHANGED <<arg, lines, prefbias, suffbias, done, allprules, allsrules,
                   app, outform>>

CallRulesGet ==
    /\ pc = "call"
    /\ ret' = prefix_suffix_rules_get(arg.s, arg.t)
    /\ pc' = "rules"
    /\ UNCHANGED <<arg, lines, prefbias, suffbias, done, allprules, allsrules,
                   app, outform>>

NextAlign == CallLevenshtein \/ CallAlignprs \/ CallRulesGet

SpecAlign == InitAlign /\ [][NextAlign]_vars

\* ------------------------------------------------- the corpus in any order
\* lines 277-293 run over a whole list of lines, from given stores
RECURSIVE trainfrom(_, _, _, _)
trainfrom(ls, pb, sb, stores) ==
    IF Len(ls) = 0 THEN stores
    ELSE LET l == Head(ls)
             add(got) == <<store_add(stores[1], l[2], got[1]),
                           store_add(stores[2], l[2], got[2])>>
         IN trainfrom(Tail(ls), pb, sb,
                      WithValue(prefix_suffix_rules_get(oriented(l[1], pb, sb),
                                                        oriented(l[3], pb, sb)),
                                add))

\* lines 263-293: both loops of main over the list ls
trainall(ls) ==
    trainfrom(ls, sumbias(ls, 1), sumbias(ls, 2), <<EmptyStore, EmptyStore>>)

\* ================================================================== claims
Evaluated == app # NoApp
StripGaps(x) == SelectSeq(x, LAMBDA c : c # "_")
Abs(n) == IF n < 0 THEN -n ELSE n

\* the rules the processed line j contributed: <<prefix rules, suffix rules>>
RulesOfLine(j) ==
    prefix_suffix_rules_get(oriented(lines[j][1], prefbias, suffbias),
                            oriented(lines[j][3], prefbias, suffbias))

\* C1: with a corpus of one training line (lemma, msd, form), the stores
\* hold exactly the rules of that pair, each with count 1; applying the best
\* rule to the same lemma under the same msd returns the form, however the
\* ties between equally frequent rules fall.
C1_SingleExampleRoundTrip ==
    (/\ pc = "eval" /\ Len(lines) = 1 /\ Evaluated
     /\ app.lemma = oriented(lines[1][1], prefbias, suffbias)
     /\ app.msd = lines[1][2])
    => app.ret = oriented(lines[1][3], prefbias, suffbias)

\* C2: the two aligned strings levenshtein returns have equal length, and
\* deleting the gap-markers from the first gives s, from the second t.
C2_AlignmentRebuildsInputs ==
    pc = "levenshtein" =>
        /\ Len(ret[1]) = Len(ret[2])
        /\ StripGaps(ret[1]) = arg.s
        /\ StripGaps(ret[2]) = arg.t

C2_Witness ==
    /\ pc = "levenshtein"
    /\ \E i \in DOMAIN ret[1] : ret[1][i] = "_"
    /\ \E i \in DOMAIN ret[2] : ret[2][i] = "_"
    /\ \E i \in DOMAIN ret[1] : ret[1][i] # "_" /\ ret[2][i] # "_"
    /\ arg.inscost # DefaultCost

\* C3: when msd is a key of neither store, apply_best_rule returns the lemma
\* it was given, unchanged.
C3_UnseenMsdReturnsLemma ==
    (/\ Evaluated
     /\ app.msd \notin DOMAIN allprules
     /\ app.msd \notin DOMAIN allsrules)
    => app.ret = app.lemma

C3_Witness ==
    /\ Evaluated
    /\ app.msd \notin DOMAIN allprules
    /\ app.msd \notin DOMAIN allsrules
    /\ DOMAIN allprules # {}
    /\ DOMAIN allsrules # {}
    /\ app.ret = app.lemma

\* the cost of an alignment, column by column
RECURSIVE ColumnCost(_, _, _)
ColumnCost(x, y, k) ==
    IF Len(x) = 0 \/ Len(y) = 0 THEN 0
    ELSE (IF Head(x) = "_" THEN k.inscost
          ELSE IF Head(y) = "_" THEN k.delcost
          ELSE IF Head(x) # Head(y) THEN k.substcost
          ELSE 0) + ColumnCost(Tail(x), Tail(y), k)

\* the least cost of any alignment of x and y
RECURSIVE LeastCost(_, _, _)
LeastCost(x, y, k) ==
    IF Len(x) = 0 THEN Len(y) * k.inscost
    ELSE IF Len(y) = 0 THEN Len(x) * k.delcost
    ELSE Min(LeastCost(Tail(x), Tail(y), k)
                 + (IF Head(x) # Head(y) THEN k.substcost ELSE 0),
             Min(LeastCost(x, Tail(y), k) + k.inscost,
                 LeastCost(Tail(x), y, k) + k.delcost))

\* C4: for positive costs the alignment levenshtein returns is a
\* minimum-cost alignment (no alignment of s and t has a smaller sum of
\* column costs) and the returned total cost is that sum.
C4_MinimumCostAlignment ==
    (pc = "levenshtein" /\ arg.inscost > 0 /\ arg.delcost > 0 /\ arg.substcost > 0)
    => /\ ColumnCost(ret[1], ret[2], arg) = LeastCost(arg.s, arg.t, arg)
       /\ ret[3] = ColumnCost(ret[1], ret[2], arg)

\* C5: for positive insertion and deletion costs the returned cost is at
\* least |len(s) - len(t)| * min(inscost, delcost), and it is 0 iff s = t.
C5_CostLowerBound ==
    (pc = "levenshtein" /\ arg.inscost > 0 /\ arg.delcost > 0)
    => /\ ret[3] >= Abs(Len(arg.s) - Len(arg.t)) * Min(arg.inscost, arg.delcost)
       /\ (ret[3] = 0 <=> arg.s = arg.t)

\* x with only the first occurrence of old replaced by new
RECURSIVE ReplaceFirst(_, _, _)
ReplaceFirst(x, old, new) ==
    IF Len(x) < Len(old) THEN x
    ELSE IF SubSeq(x, 1, Len(old)) = old
         THEN new \o SubSeq(x, Len(old) + 1, Len(x))
         ELSE <<Head(x)>> \o ReplaceFirst(Tail(x), old, new)

\* C6: each step of apply_best_rule (suffix, then prefix) replaces only the
\* first occurrence of the chosen rule's input pattern in base; every later
\* occurrence stays as it was.
C6_FirstOccurrenceOnly ==
    Evaluated =>
        /\ app.srule # NoRule =>
              app.base1 = ReplaceFirst(app.base0, app.srule[1], app.srule[2])
        /\ app.prule # NoRule =>
              app.base2 = ReplaceFirst(app.base1, app.prule[1], app.prule[2])

\* C7: every prefix rule prefix_suffix_rules_get returns has an input and an
\* output pattern that start with '<', every suffix rule has an input and an
\* output pattern that end with '>', and no rule contains a gap-marker.
C7_RulesAnchored ==
    pc = "rules" =>
        /\ \A r \in ret[1] :
              /\ Len(r[1]) > 0 /\ r[1][1] = "<"
              /\ Len(r[2]) > 0 /\ r[2][1] = "<"
        /\ \A r \in ret[2] :
              /\ Len(r[1]) > 0 /\ r[1][Len(r[1])] = ">"
              /\ Len(r[2]) > 0 /\ r[2][Len(r[2])] = ">"
        /\ \A r \in ret[1] \cup ret[2] :
              \A i \in 1..2 : \A j \in DOMAIN r[i] : r[i][j] # "_"

\* the suffix rules of the MSD whose input pattern is a substring of base0,
\* with their counts
SuffixCandidates ==
    IF app.msd \in DOMAIN allsrules
    THEN {<<r[1], r[2], allsrules[app.msd][r]>> :
             r \in {q \in DOMAIN allsrules[app.msd] :
                       \E i \in 0..(Len(app.base0) - Len(q[1])) :
                          SubSeq(app.base0, i + 1, i + Len(q[1])) = q[1]}}
    ELSE {}

\* C8: the suffix rule applied is an applicable suffix rule of the MSD that
\* maximizes (length of input pattern, frequency, length of output pattern)
\* in lexicographic order; no applicable rule has a longer input pattern.
C8_SuffixChoiceMaximizesKey ==
    (Evaluated /\ ~app.bailed) =>
        IF SuffixCandidates = {} THEN app.srule = NoRule
        ELSE /\ app.srule \in SuffixCandidates
             /\ \A y \in SuffixCandidates :
                   /\ Len(y[1]) <= Len(app.srule[1])
                   /\ Len(y[1]) = Len(app.srule[1]) => y[3] <= app.srule[3]
                   /\ (Len(y[1]) = Len(app.srule[1]) /\ y[3] = app.srule[3])
                         => Len(y[2]) <= Len(app.srule[2])

\* a rule was applied although a shorter applicable rule is more frequent
C8_Witness ==
    /\ Evaluated
    /\ ~app.bailed
    /\ app.srule # NoRule
    /\ \E y \in SuffixCandidates :
          Len(y[1]) < Len(app.srule[1]) /\ y[3] > app.srule[3]
    /\ app.base1 # app.base0

\* C9: the six parts alignprs returns satisfy lp + lr + ls = aligned lemma
\* and fp + fr + fs = aligned form, the aligned strings being those of
\* levenshtein(lemma, form, substcost = 1.1), also for an empty lemma or form.
C9_PartsRebuildAlignment ==
    pc = "alignprs" =>
        LET al == levenshtein(arg.s, arg.t, DefaultCost, DefaultCost,
                              AlignSubstCost)
        IN /\ ret[1] \o ret[2] \o ret[3] = al[1]
           /\ ret[4] \o ret[5] \o ret[6] = al[2]

\* the lists that hold the lines of ls in another order
Reorderings(ls) ==
    {[i \in 1..Len(ls) |-> ls[p[i]]] :
        p \in {f \in [1..Len(ls) -> 1..Len(ls)] :
                  \A i, j \in 1..Len(ls) : f[i] = f[j] => i = j}}

\* the processed lines with the rules each contributed:
\* <<line number, msd, <<prefix rules, suffix rules>>>>
ProcessedRules == {<<j, lines[j][2], RulesOfLine(j)>> : j \in 1..done}

\* store (the prefix store for k = 1, the suffix store for k = 2) counts, for
\* each MSD, the processed lines of that MSD that contributed the rule
StoreCountsLines(store, k, processed) ==
    /\ DOMAIN store = {x[2] : x \in processed}
    /\ \A m \in DOMAIN store :
          /\ DOMAIN store[m] = UNION {x[3][k] : x \in {y \in processed : y[2] = m}}
          /\ \A r \in DOMAIN store[m] :
                /\ store[m][r] >= 1
                /\ store[m][r] =
                      Cardinality({x \in processed : x[2] = m /\ r \in x[3][k]})

\* C10: the stores are the same mapping MSD -> rule -> count in whichever
\* order the training lines are processed, every stored count is >= 1, and
\* the count of a rule under an MSD is the number of processed lines of that
\* MSD whose extracted rule set contains the rule.  (The dev lines leave
\* the stores alone, so the stores are looked at before the first of them.)
C10_StoreOrderIndependent ==
    (pc \in {"train", "eval"} /\ ~Evaluated) =>
        /\ \A processed \in {ProcessedRules} :
              /\ StoreCountsLines(allprules, 1, processed)
              /\ StoreCountsLines(allsrules, 2, processed)
        /\ done = Len(lines) =>
              \A ls \in Reorderings(lines) : trainall(ls) = <<allprules, allsrules>>

C10_Witness ==
    /\ pc = "eval"
    /\ ~Evaluated
    /\ Len(lines) = 2
    /\ lines[1] # lines[2]
    /\ lines[1][2] = lines[2][2]
    /\ \E r \in DOMAIN allsrules[lines[1][2]] : allsrules[lines[1][2]][r] = 2
    /\ \E r \in DOMAIN allsrules[lines[1][2]] : allsrules[lines[1][2]][r] = 1
    /\ trainall(<<lines[2], lines[1]>>) = <<allprules, allsrules>>

====
